---- MODULE Spec2Model ----
(***************************************************************************)
(* Model of the resource-safety and task-lifecycle core:                   *)
(*   os/src/sync/deadlock_detection.rs   Banker<R> (ledger + is_safe)      *)
(*   os/src/task/task.rs                 TaskControlBlock / TaskInfo       *)
(*                                                                         *)
(* Rust vectors are functions over 0..len-1 so that task ids and resource  *)
(* slot ids keep the numeric values they have in the source.  Option<T> is *)
(* a sequence of length at most one: None is <<>>, Some(x) is <<x>>.       *)
(*                                                                         *)
(* usize arithmetic: for every slot the code keeps                         *)
(*   available[r] + SUM_t max[t][r] <= total passed to add_resource,       *)
(* and allocated <= max, so none of the += in request, try_request and     *)
(* is_safe can exceed a value that was itself a usize; every -= is guarded *)
(* by the comparison in front of it.  Naturals therefore model usize here  *)
(* exactly.                                                                *)
(***************************************************************************)
EXTENDS Integers, Sequences, FiniteSets, TLC

VARIABLES banker, total, last, tcb, clock, tlast, first_entry

vars == <<banker, total, last, tcb, clock, tlast, first_entry>>

----------------------------------------------------------------------------
(* Bounds of the ledger model *)

\* add_task is called at most MaxTasks times (task rows 0..MaxTasks)
MaxTasks == 1
\* capacities passed to add_resource are 0..MaxTotal
MaxTotal == 1

\* resource identities (the type parameter R)
ResourceIds == {"A", "B"}

----------------------------------------------------------------------------
(* Vec and Option *)

None == << >>
Some(x) == << x >>

VecLen(v) == Cardinality(DOMAIN v)
VecFill(n, x) == [i \in 0..(n - 1) |-> x]
VecPush(v, x) == [i \in 0..VecLen(v) |-> IF i < VecLen(v) THEN v[i] ELSE x]

----------------------------------------------------------------------------
(* Banker<R> *)

\* Banker::new
new ==
    [ resources |-> VecFill(0, None),
      recycle   |-> << >>,
      num_tasks |-> 1,
      max       |-> VecFill(1, VecFill(0, 0)),
      allocated |-> VecFill(1, VecFill(0, 0)),
      available |-> VecFill(0, 0),
      need      |-> VecFill(1, VecFill(0, 0)) ]

\* Every operation below yields [b, ret, path]: the Banker afterwards, the
\* value returned, and the return statement (or assertion) that ended it.

\* Banker::add_task: returns the incremented num_tasks
add_task(b) ==
    LET n == VecLen(b.resources)
        b1 == [b EXCEPT !.num_tasks = @ + 1,
                        !.max = VecPush(@, VecFill(n, 0)),
                        !.allocated = VecPush(@, VecFill(n, 0)),
                        !.need = VecPush(@, VecFill(n, 0))]
    IN  [b |-> b1, ret |-> b1.num_tasks, path |-> "done"]

\* Banker::remove_task
remove_task(b, task_id) ==
    IF task_id >= b.num_tasks
    THEN [b |-> b, ret |-> FALSE, path |-> "range"]
    ELSE [b |-> [b EXCEPT !.max[task_id] = [r \in DOMAIN @ |-> 0],
                          !.allocated[task_id] = [r \in DOMAIN @ |-> 0],
                          !.need[task_id] = [r \in DOMAIN @ |-> 0]],
          ret |-> TRUE, path |-> "done"]

\* add_resource that does not extend the rows of need when it pushes a slot
add_resource_short_need(b, resource, tot) ==
    IF b.recycle # << >>
    THEN LET id == Head(b.recycle)
         IN  [b |-> [b EXCEPT !.recycle = Tail(@),
                              !.resources[id] = Some(resource),
                              !.available[id] = tot],
              ret |-> TRUE, path |-> "recycled"]
    ELSE [b |-> [b EXCEPT !.resources = VecPush(@, Some(resource)),
                          !.available = VecPush(@, tot),
                          !.max = [t \in DOMAIN @ |-> VecPush(@[t], 0)],
                          !.allocated = [t \in DOMAIN @ |-> VecPush(@[t], 0)]],
          ret |-> TRUE, path |-> "pushed"]

\* Banker::add_resource (returns nothing: ret is TRUE on both paths)
add_resource(b, resource, tot) ==
    IF b.recycle # << >>
    THEN LET id == Head(b.recycle)
         IN  [b |-> [b EXCEPT !.recycle = Tail(@),
                              !.resources[id] = Some(resource),
                              !.available[id] = tot],
              ret |-> TRUE, path |-> "recycled"]
    ELSE [b |-> [b EXCEPT !.resources = VecPush(@, Some(resource)),
                          !.available = VecPush(@, tot),
                          !.max = [t \in DOMAIN @ |-> VecPush(@[t], 0)],
                          !.allocated = [t \in DOMAIN @ |-> VecPush(@[t], 0)],
                          !.need = [t \in DOMAIN @ |-> VecPush(@[t], 0)]],
          ret |-> TRUE, path |-> "pushed"]

\* Banker::resource_id: position of the first slot holding Some(resource)
resource_id(b, resource) ==
    LET hits == {i \in DOMAIN b.resources : b.resources[i] = Some(resource)}
    IN  IF hits = {} THEN None
        ELSE Some(CHOOSE i \in hits : \A j \in hits : i <= j)

\* remove_resource that leaves the slot's available as it was
remove_resource_keeps_available(b, resource) ==
    LET rid == resource_id(b, resource)
    IN  IF rid # None
        THEN LET id == rid[1]
             IN  [b |-> [b EXCEPT !.resources[id] = None,
                                  !.recycle = Append(@, id),
                                  !.max = [t \in DOMAIN @ |-> [@[t] EXCEPT ![id] = 0]],
                                  !.allocated = [t \in DOMAIN @ |-> [@[t] EXCEPT ![id] = 0]],
                                  !.need = [t \in DOMAIN @ |-> [@[t] EXCEPT ![id] = 0]]],
                  ret |-> TRUE, path |-> "done"]
        ELSE [b |-> b, ret |-> FALSE, path |-> "unknown"]

\* remove_resource that forgets to clear the allocated column
remove_resource_keeps_allocated(b, resource) ==
    LET rid == resource_id(b, resource)
    IN  IF rid # None
        THEN LET id == rid[1]
             IN  [b |-> [b EXCEPT !.resources[id] = None,
                                  !.recycle = Append(@, id),
                                  !.available[id] = 0,
                                  !.max = [t \in DOMAIN @ |-> [@[t] EXCEPT ![id] = 0]],
                                  !.need = [t \in DOMAIN @ |-> [@[t] EXCEPT ![id] = 0]]],
                  ret |-> TRUE, path |-> "done"]
        ELSE [b |-> b, ret |-> FALSE, path |-> "unknown"]

\* Banker::remove_resource
remove_resource(b, resource) ==
    LET rid == resource_id(b, resource)
    IN  IF rid # None
        THEN LET id == rid[1]
             IN  [b |-> [b EXCEPT !.resources[id] = None,
                                  !.recycle = Append(@, id),
                                  !.available[id] = 0,
                                  !.max = [t \in DOMAIN @ |-> [@[t] EXCEPT ![id] = 0]],
                                  !.allocated = [t \in DOMAIN @ |-> [@[t] EXCEPT ![id] = 0]],
                                  !.need = [t \in DOMAIN @ |-> [@[t] EXCEPT ![id] = 0]]],
                  ret |-> TRUE, path |-> "done"]
        ELSE [b |-> b, ret |-> FALSE, path |-> "unknown"]

\* release that gives back what is held when asked for more, and reports false
release_clamped(b, task_id, resource, amount) ==
    IF task_id >= b.num_tasks THEN [b |-> b, ret |-> FALSE, path |-> "range"]
    ELSE LET rid == resource_id(b, resource)
         IN  IF rid = None THEN [b |-> b, ret |-> FALSE, path |-> "unknown"]
             ELSE IF amount > b.allocated[task_id][rid[1]]
                  THEN [b |-> [b EXCEPT !.allocated[task_id][rid[1]] = 0],
                        ret |-> FALSE, path |-> "exceeds"]
                  ELSE [b |-> [b EXCEPT !.allocated[task_id][rid[1]] = @ - amount],
                        ret |-> TRUE, path |-> "done"]

\* Banker::release: only allocated is decremented
release(b, task_id, resource, amount) ==
    IF task_id >= b.num_tasks THEN [b |-> b, ret |-> FALSE, path |-> "range"]
    ELSE LET rid == resource_id(b, resource)
         IN  IF rid = None THEN [b |-> b, ret |-> FALSE, path |-> "unknown"]
             ELSE IF amount > b.allocated[task_id][rid[1]]
                  THEN [b |-> b, ret |-> FALSE, path |-> "exceeds"]
                  ELSE [b |-> [b EXCEPT !.allocated[task_id][rid[1]] = @ - amount],
                        ret |-> TRUE, path |-> "done"]

----------------------------------------------------------------------------
(* Banker::is_safe *)

\* the inner loop over resource_id that compares need with work
need_fits(b, task_id, work) ==
    \A rid \in DOMAIN b.resources :
        ~(b.need[task_id][rid] > work[rid])

\* one execution of `for task_id in 0..self.num_tasks`, from task_id on;
\* st = [work, finish, count, found]
RECURSIVE is_safe_scan(_, _, _)
is_safe_scan(b, task_id, st) ==
    IF task_id >= b.num_tasks THEN st
    ELSE IF st.finish[task_id] THEN is_safe_scan(b, task_id + 1, st)
    ELSE IF need_fits(b, task_id, st.work)
         THEN is_safe_scan(b, task_id + 1,
                [ work   |-> [rid \in DOMAIN st.work |->
                                IF rid \in DOMAIN b.resources
                                THEN st.work[rid] + b.allocated[task_id][rid]
                                ELSE st.work[rid]],
                  finish |-> [st.finish EXCEPT ![task_id] = TRUE],
                  count  |-> st.count + 1,
                  found  |-> TRUE ])
         ELSE is_safe_scan(b, task_id + 1, st)

\* is_safe with a single linear pass over the tasks instead of the loop
is_safe_while_single_pass(b, st, passes) ==
    LET st1 == is_safe_scan(b, 0, [st EXCEPT !.found = FALSE])
    IN  [safe |-> ~(st1.count < b.num_tasks), passes |-> 1, final |-> st1]

\* is_safe whose loop runs while count <= num_tasks
RECURSIVE is_safe_while_one_more(_, _, _)
is_safe_while_one_more(b, st, passes) ==
    IF ~(st.count <= b.num_tasks)
    THEN [safe |-> TRUE, passes |-> passes, final |-> st]
    ELSE LET st1 == is_safe_scan(b, 0, [st EXCEPT !.found = FALSE])
         IN  IF ~st1.found
             THEN [safe |-> FALSE, passes |-> passes + 1, final |-> st1]
             ELSE is_safe_while_one_more(b, st1, passes + 1)

\* the `while count < self.num_tasks` loop; passes counts the executions
\* of its body, final is [work, finish, count, found] when the loop ends
RECURSIVE is_safe_while(_, _, _)
is_safe_while(b, st, passes) ==
    IF ~(st.count < b.num_tasks)
    THEN [safe |-> TRUE, passes |-> passes, final |-> st]
    ELSE LET st1 == is_safe_scan(b, 0, [st EXCEPT !.found = FALSE])
         IN  IF ~st1.found
             THEN [safe |-> FALSE, passes |-> passes + 1, final |-> st1]
             ELSE is_safe_while(b, st1, passes + 1)

is_safe_run(b) ==
    is_safe_while(b, [ work   |-> b.available,
                       finish |-> VecFill(b.num_tasks, FALSE),
                       count  |-> 0,
                       found  |-> FALSE ], 0)

is_safe(b) == is_safe_run(b).safe

----------------------------------------------------------------------------
(* Banker::try_request and Banker::request *)

\* try_request that returns on an unsafe verdict before undoing the increase
try_request_early_return(b, task_id, resource, amount) ==
    IF task_id >= b.num_tasks THEN [b |-> b, ret |-> FALSE, path |-> "range"]
    ELSE LET rid == resource_id(b, resource)
         IN  IF rid = None THEN [b |-> b, ret |-> FALSE, path |-> "unknown"]
             ELSE IF amount > b.available[rid[1]]
                  THEN [b |-> b, ret |-> FALSE, path |-> "exceeds"]
             ELSE LET b1 == [b EXCEPT !.max[task_id][rid[1]] = @ + amount,
                                      !.need[task_id][rid[1]] = @ + amount]
                  IN  IF ~is_safe(b1)
                      THEN [b |-> b1, ret |-> FALSE, path |-> "checked"]
                      ELSE [b |-> b, ret |-> TRUE, path |-> "checked"]

\* Banker::try_request
try_request(b, task_id, resource, amount) ==
    IF task_id >= b.num_tasks THEN [b |-> b, ret |-> FALSE, path |-> "range"]
    ELSE LET rid == resource_id(b, resource)
         IN  IF rid = None THEN [b |-> b, ret |-> FALSE, path |-> "unknown"]
             ELSE IF amount > b.available[rid[1]]
                  THEN [b |-> b, ret |-> FALSE, path |-> "exceeds"]
             ELSE LET b1 == [b EXCEPT !.max[task_id][rid[1]] = @ + amount,
                                      !.need[task_id][rid[1]] = @ + amount]
                      safe == is_safe(b1)
                      b2 == [b1 EXCEPT !.max[task_id][rid[1]] = @ - amount,
                                       !.need[task_id][rid[1]] = @ - amount]
                  IN  [b |-> b2, ret |-> safe, path |-> "checked"]

\* request without the assertion on the amount
request_unchecked_amount(b, task_id, resource, amount) ==
    IF ~(task_id < b.num_tasks) THEN [b |-> b, ret |-> FALSE, path |-> "range"]
    ELSE LET rid == resource_id(b, resource)
         IN  IF rid = None THEN [b |-> b, ret |-> FALSE, path |-> "unknown"]
             ELSE [b |-> [b EXCEPT !.max[task_id][rid[1]] = @ + amount,
                                   !.need[task_id][rid[1]] = @ + amount,
                                   !.allocated[task_id][rid[1]] = @ + amount,
                                   !.available[rid[1]] = @ - amount],
                   ret |-> TRUE, path |-> "done"]

\* request that leaves max as it was
request_without_max(b, task_id, resource, amount) ==
    IF ~(task_id < b.num_tasks) THEN [b |-> b, ret |-> FALSE, path |-> "range"]
    ELSE LET rid == resource_id(b, resource)
         IN  IF rid = None THEN [b |-> b, ret |-> FALSE, path |-> "unknown"]
             ELSE IF ~(amount <= b.available[rid[1]])
                  THEN [b |-> b, ret |-> FALSE, path |-> "exceeds"]
             ELSE [b |-> [b EXCEPT !.need[task_id][rid[1]] = @ + amount,
                                   !.allocated[task_id][rid[1]] = @ + amount,
                                   !.available[rid[1]] = @ - amount],
                   ret |-> TRUE, path |-> "done"]

\* Banker::request; ret is FALSE when one of its assertions fails (a panic)
request(b, task_id, resource, amount) ==
    IF ~(task_id < b.num_tasks) THEN [b |-> b, ret |-> FALSE, path |-> "range"]
    ELSE LET rid == resource_id(b, resource)
         IN  IF rid = None THEN [b |-> b, ret |-> FALSE, path |-> "unknown"]
             ELSE IF ~(amount <= b.available[rid[1]])
                  THEN [b |-> b, ret |-> FALSE, path |-> "exceeds"]
             ELSE [b |-> [b EXCEPT !.max[task_id][rid[1]] = @ + amount,
                                   !.need[task_id][rid[1]] = @ + amount,
                                   !.allocated[task_id][rid[1]] = @ + amount,
                                   !.available[rid[1]] = @ - amount],
                   ret |-> TRUE, path |-> "done"]

----------------------------------------------------------------------------
(* The ledger as a state machine.                                          *)
(* banker : the Banker value                                               *)
(* total  : per slot, the capacity passed to the add_resource call that    *)
(*          last filled the slot (a history of that argument)              *)
(* Every action leaves the task variables alone, and none is taken once a  *)
(* call has panicked.                                                      *)
(* last   : the last call: its name, what it returned and by which path,   *)
(*          and whether it panicked (the kernel stops there).  task_id,    *)
(*          resource and amount hold the arguments of a call that changed  *)
(*          the ledger (for add_task, task_id is the id it returned); a    *)
(*          call that returned early, panicked or only read records none.  *)

NoArg == "-"

Call(op, r, task_id, resource, amount, panicked) ==
    [ op |-> op, ret |-> r.ret, path |-> r.path, task_id |-> task_id,
      resource |-> resource, amount |-> amount, panicked |-> panicked ]

LedgerInit ==
    /\ banker = new
    /\ total = VecFill(0, 0)
    /\ last = Call("new", [ret |-> TRUE, path |-> "done"], 0, NoArg, 0, FALSE)

AddTask(TaskCap) ==
    /\ ~last.panicked
    /\ banker.num_tasks <= TaskCap
    /\ LET r == add_task(banker)
       IN  /\ banker' = r.b
           /\ last' = Call("add_task", [r EXCEPT !.ret = TRUE], r.ret, NoArg, 0, FALSE)
    /\ UNCHANGED <<total, tcb, clock, tlast, first_entry>>

RemoveTask(task_id) ==
    /\ ~last.panicked
    /\ LET r == remove_task(banker, task_id)
       IN  /\ banker' = r.b
           /\ last' = IF r.ret THEN Call("remove_task", r, task_id, NoArg, 0, FALSE)
                            ELSE Call("remove_task", r, 0, NoArg, 0, FALSE)
    /\ UNCHANGED <<total, tcb, clock, tlast, first_entry>>

\* callers register an identity only while it is not registered (the
\* identities in use are distinct), so the slots never outnumber them
AddResource(resource, tot) ==
    /\ ~last.panicked
    /\ resource_id(banker, resource) = None
    /\ LET r == add_resource(banker, resource, tot)
       IN  /\ banker' = r.b
           /\ last' = Call("add_resource", r, 0, resource, tot, FALSE)
           /\ total' = IF banker.recycle # << >>
                       THEN [total EXCEPT ![Head(banker.recycle)] = tot]
                       ELSE VecPush(total, tot)
    /\ UNCHANGED <<tcb, clock, tlast, first_entry>>

RemoveResource(resource) ==
    /\ ~last.panicked
    /\ LET r == remove_resource(banker, resource)
       IN  /\ banker' = r.b
           /\ last' = IF r.ret THEN Call("remove_resource", r, 0, resource, 0, FALSE)
                            ELSE Call("remove_resource", r, 0, NoArg, 0, FALSE)
    /\ UNCHANGED <<total, tcb, clock, tlast, first_entry>>

Release(task_id, resource, amount) ==
    /\ ~last.panicked
    /\ LET r == release(banker, task_id, resource, amount)
       IN  /\ banker' = r.b
           /\ last' = IF r.ret THEN Call("release", r, task_id, resource, amount, FALSE)
                            ELSE Call("release", r, 0, NoArg, 0, FALSE)
    /\ UNCHANGED <<total, tcb, clock, tlast, first_entry>>

IsSafe ==
    /\ ~last.panicked
    /\ last' = Call("is_safe", [ret |-> is_safe(banker), path |-> "done"],
                    0, NoArg, 0, FALSE)
    /\ UNCHANGED <<banker, total, tcb, clock, tlast, first_entry>>

TryRequest(task_id, resource, amount) ==
    /\ ~last.panicked
    /\ LET r == try_request(banker, task_id, resource, amount)
       IN  /\ banker' = r.b
           /\ last' = Call("try_request", r, 0, NoArg, 0, FALSE)
    /\ UNCHANGED <<total, tcb, clock, tlast, first_entry>>

Request(task_id, resource, amount) ==
    /\ ~last.panicked
    /\ LET r == request(banker, task_id, resource, amount)
       IN  /\ banker' = r.b
           /\ last' = IF r.ret THEN Call("request", r, task_id, resource, amount, FALSE)
                            ELSE Call("request", r, 0, NoArg, 0, TRUE)
    /\ UNCHANGED <<total, tcb, clock, tlast, first_entry>>

\* every call of the ledger's interface, with arguments from the given sets;
\* the task ids are every row and num_tasks itself, which is out of range
\* (every id >= num_tasks takes the same branch of each operation)
LedgerStep(Ids, Totals, Amounts, TaskCap) ==
    \/ AddTask(TaskCap)
    \/ \E t \in 0..banker.num_tasks : RemoveTask(t)
    \/ \E r \in Ids, tot \in Totals : AddResource(r, tot)
    \/ \E r \in Ids : RemoveResource(r)
    \/ \E t \in 0..banker.num_tasks, r \in Ids, a \in Amounts : Release(t, r, a)
    \/ IsSafe
    \/ \E t \in 0..banker.num_tasks, r \in Ids, a \in Amounts : TryRequest(t, r, a)
    \/ \E t \in 0..banker.num_tasks, r \in Ids, a \in Amounts : Request(t, r, a)


----------------------------------------------------------------------------
(* TaskControlBlock: the enum's variant is tag, its TaskInfo payload is    *)
(* start_time and syscall_times (task_cx is never read or written by the   *)
(* operations below).                                                      *)

\* length of syscall_times (MAX_SYSCALL_NUM of the kernel's config, scaled down)
MaxSyscallNum == 2
\* the clock reads 0..MaxClock
MaxClock == 2
\* sys_call_inc is called while a counter is below MaxCount
MaxCount == 2

\* TaskInfo::new, wrapped in the variant the task is constructed in
TaskInfoNew(tag, start_time) ==
    [ tag |-> tag, start_time |-> start_time,
      syscall_times |-> VecFill(MaxSyscallNum, 0) ]

\* turn_to_running that stamps the start time before matching on the state
turn_to_running_stamps_first(t, now) ==
    LET t1 == [t EXCEPT !.start_time = IF @ = 0 THEN now ELSE @]
    IN  IF t.tag = "Ready"
        THEN [t |-> [t1 EXCEPT !.tag = "Running"], ret |-> "Ok"]
        ELSE [t |-> t1, ret |-> "Err"]

\* TaskControlBlock::turn_to_running; now is what get_time_ms() returns
turn_to_running(t, now) ==
    IF t.tag = "Ready"
    THEN [t |-> [t EXCEPT !.start_time = IF @ = 0 THEN now ELSE @,
                          !.tag = "Running"],
          ret |-> "Ok"]
    ELSE [t |-> t, ret |-> "Err"]

\* try_turn_to_ready that also accepts a task never made ready
try_turn_to_ready_from_uninit(t) ==
    IF t.tag \in {"Running", "UnInit"}
    THEN [t |-> [t EXCEPT !.tag = "Ready"], ret |-> "Ok"]
    ELSE [t |-> t, ret |-> "Err"]

\* try_turn_to_ready that accepts every initialised state
try_turn_to_ready_any(t) ==
    IF t.tag # "UnInit"
    THEN [t |-> [t EXCEPT !.tag = "Ready"], ret |-> "Ok"]
    ELSE [t |-> t, ret |-> "Err"]

\* TaskControlBlock::try_turn_to_ready
try_turn_to_ready(t) ==
    IF t.tag = "Running"
    THEN [t |-> [t EXCEPT !.tag = "Ready"], ret |-> "Ok"]
    ELSE [t |-> t, ret |-> "Err"]

\* TaskControlBlock::turn_to_exited
turn_to_exited(t) ==
    IF t.tag \in {"Running", "Ready", "UnInit"}
    THEN [t |-> [t EXCEPT !.tag = "Exited"], ret |-> "Ok"]
    ELSE [t |-> t, ret |-> "Ok"]

\* TaskInfo::sys_call_inc: indexing past the array panics
info_sys_call_inc(t, syscall_id) ==
    IF syscall_id < MaxSyscallNum
    THEN [t |-> [t EXCEPT !.syscall_times[syscall_id] = @ + 1], ret |-> "Some"]
    ELSE [t |-> t, ret |-> "panic"]

\* TaskControlBlock::sys_call_inc
sys_call_inc(t, syscall_id) ==
    IF t.tag \in {"Ready", "Running"}
    THEN info_sys_call_inc(t, syscall_id)
    ELSE [t |-> t, ret |-> "None"]

(* tcb   : the task control block                                          *)
(* clock : the value get_time_ms() returns when called now                 *)
(* tlast : the last call on the block and what it returned                 *)
(* first_entry : None until turn_to_running first succeeds; from then on   *)
(*         whether start_time was 0 before that call, and start_time as    *)
(*         that call left it (a history of the first Ready->Running)       *)
(* Every action leaves the ledger variables alone, and none is taken once  *)
(* a call has panicked.                                                    *)

TaskInit ==
    /\ \E tag \in {"UnInit", "Ready"}, st \in 0..MaxClock :
           tcb = TaskInfoNew(tag, st)
    /\ clock = 0
    /\ tlast = [op |-> "new", ret |-> "Ok"]
    /\ first_entry = None

Tick ==
    /\ tlast.ret # "panic"
    /\ clock < MaxClock
    /\ clock' = clock + 1
    /\ UNCHANGED <<tcb, tlast, banker, total, last, first_entry>>

TurnToRunning ==
    /\ tlast.ret # "panic"
    /\ LET r == turn_to_running(tcb, clock)
       IN  /\ tcb' = r.t
           /\ tlast' = [op |-> "turn_to_running", ret |-> r.ret]
           /\ first_entry' =
                  IF r.ret = "Ok" /\ first_entry = None
                  THEN Some([unset |-> tcb.start_time = 0,
                             start_time |-> r.t.start_time])
                  ELSE first_entry
    /\ UNCHANGED <<clock, banker, total, last>>

TryTurnToReady ==
    /\ tlast.ret # "panic"
    /\ LET r == try_turn_to_ready(tcb)
       IN  /\ tcb' = r.t
           /\ tlast' = [op |-> "try_turn_to_ready", ret |-> r.ret]
    /\ UNCHANGED <<clock, banker, total, last, first_entry>>

TurnToExited ==
    /\ tlast.ret # "panic"
    /\ LET r == turn_to_exited(tcb)
       IN  /\ tcb' = r.t
           /\ tlast' = [op |-> "turn_to_exited", ret |-> r.ret]
    /\ UNCHANGED <<clock, banker, total, last, first_entry>>

SysCallInc(syscall_id) ==
    /\ tlast.ret # "panic"
    /\ syscall_id < MaxSyscallNum => tcb.syscall_times[syscall_id] < MaxCount
    /\ LET r == sys_call_inc(tcb, syscall_id)
       IN  /\ tcb' = r.t
           /\ tlast' = [op |-> "sys_call_inc", ret |-> r.ret]
    /\ UNCHANGED <<clock, banker, total, last, first_entry>>

\* syscall ids 0..MaxSyscallNum include one past the counter table
TaskStep ==
    \/ Tick
    \/ TurnToRunning
    \/ TryTurnToReady
    \/ TurnToExited
    \/ \E id \in 0..MaxSyscallNum : SysCallInc(id)

----------------------------------------------------------------------------
(* Inputs of is_safe taken on their own: every Banker of the shapes below  *)
(* (num_tasks, resources.len()) with need, allocated and available entries *)
(* in 0..MaxCell, and the two textbook instances.  is_safe does not read   *)
(* max; it is filled in as need + allocated.                               *)

MaxCell == 1

SafeShapes == { <<3, 1>>, <<2, 2>> }

Matrix(rows) == [i \in 0..(Len(rows) - 1) |->
                    [j \in 0..(Len(rows[i + 1]) - 1) |-> rows[i + 1][j + 1]]]
Vector(row) == [j \in 0..(Len(row) - 1) |-> row[j + 1]]

BankerOf(avail, alloc, nd) ==
    [ resources |-> [j \in DOMAIN avail |-> Some(j)],
      recycle   |-> << >>,
      num_tasks |-> VecLen(alloc),
      max       |-> [t \in DOMAIN alloc |->
                        [j \in DOMAIN avail |-> nd[t][j] + alloc[t][j]]],
      allocated |-> alloc,
      available |-> avail,
      need      |-> nd ]

\* Silberschatz' instance: 5 tasks, 3 resources, available = (3,3,2)
TextbookSafe ==
    BankerOf(Vector(<<3, 3, 2>>),
             Matrix(<< <<0,1,0>>, <<2,0,0>>, <<3,0,2>>, <<2,1,1>>, <<0,0,2>> >>),
             Matrix(<< <<7,4,3>>, <<1,2,2>>, <<6,0,0>>, <<0,1,1>>, <<4,3,1>> >>))

\* the same after P1 was granted (1,0,2) and P0 (0,2,0): unsafe
TextbookUnsafe ==
    BankerOf(Vector(<<2, 1, 0>>),
             Matrix(<< <<0,3,0>>, <<3,0,2>>, <<3,0,2>>, <<2,1,1>>, <<0,0,2>> >>),
             Matrix(<< <<7,2,3>>, <<0,2,0>>, <<6,0,0>>, <<0,1,1>>, <<4,3,1>> >>))

\* the Bankers of shape sh = (num_tasks, resources.len())
Cells(sh) == [0..(sh[1] - 1) -> [0..(sh[2] - 1) -> 0..MaxCell]]
Avails(sh) == [0..(sh[2] - 1) -> 0..MaxCell]

----------------------------------------------------------------------------
(* Specifications *)

\* the task variables while only the ledger runs
TaskIdle ==
    /\ tcb = TaskInfoNew("UnInit", 0)
    /\ clock = 0
    /\ tlast = [op |-> "new", ret |-> "Ok"]
    /\ first_entry = None

\* the ledger under every call sequence
Init == LedgerInit /\ TaskIdle

Next == LedgerStep(ResourceIds, 0..MaxTotal, 0..MaxTotal, MaxTasks)

Spec == Init /\ [][Next]_vars

\* the ledger with the arguments of the worked scenario: one resource of
\* capacity 10, two tasks, amounts 3, 4, 5 and 7
ScenarioNext == LedgerStep({"A"}, {10}, {3, 4, 5, 7}, 2)

SpecScenario == Init /\ [][ScenarioNext]_vars

\* is_safe applied to each input
SafeInit ==
    /\ \/ banker = TextbookSafe
       \/ banker = TextbookUnsafe
       \/ \E sh \in SafeShapes :
              \E avail \in Avails(sh), alloc \in Cells(sh), nd \in Cells(sh) :
                  banker = BankerOf(avail, alloc, nd)
    /\ total = VecFill(0, 0)
    /\ last = Call("new", [ret |-> TRUE, path |-> "done"], 0, NoArg, 0, FALSE)
    /\ TaskIdle

SafeNext == IsSafe

SpecSafe == SafeInit /\ [][SafeNext]_vars

\* one task control block under every call sequence
TaskSpecInit == LedgerInit /\ TaskInit

TaskNext == TaskStep

SpecTask == TaskSpecInit /\ [][TaskNext]_vars

----------------------------------------------------------------------------
(* Properties *)

TaskRows(b) == 0..(b.num_tasks - 1)
Slots(b) == DOMAIN b.resources

RECURSIVE SumAllocated(_, _, _)
SumAllocated(b, n, id) ==
    IF n = 0 THEN 0 ELSE b.allocated[n - 1][id] + SumAllocated(b, n - 1, id)

\* C1 (conservation): for every registered resource, available plus the
\* allocations of all tasks equals the capacity passed at registration.
\* release and remove_task lower allocated without raising available.
Conservation ==
    \A id \in Slots(banker) :
        banker.resources[id] # None =>
            banker.available[id] + SumAllocated(banker, banker.num_tasks, id)
                = total[id]

\* C2 (need consistency): need[t][r] = max[t][r] - allocated[t][r] for every
\* task and slot.  request raises need together with allocated.
NeedConsistency ==
    \A t \in TaskRows(banker) : \A id \in Slots(banker) :
        banker.need[t][id] = banker.max[t][id] - banker.allocated[t][id]

\* C3 (admission soundness): in every reachable state, for every task id,
\* identity and amount, if try_request returns true then the state request
\* produces from the same arguments passes is_safe.
AdmissionSound ==
    \A t \in 0..(MaxTasks + 1), r \in ResourceIds, a \in 0..MaxTotal :
        try_request(banker, t, r, a).ret =>
            is_safe(request(try_request(banker, t, r, a).b, t, r, a).b)

\* the effect the recommended release has on the three entries
CanonicalRelease(b, t, id, a) ==
    [b EXCEPT !.allocated[t][id] = @ - a,
              !.available[id] = @ + a,
              !.need[t][id] = @ + a]

\* C4 (release restores): every successful release(task, identity, amount)
\* lowers allocated[task][resource] by amount and raises available[resource]
\* and need[task][resource] by amount, and changes nothing else.
ReleaseRestores ==
    [][ (last'.op = "release" /\ last'.ret) =>
            banker' = CanonicalRelease(banker, last'.task_id,
                          resource_id(banker, last'.resource)[1], last'.amount)
      ]_vars

\* a <= b elementwise over the slots
VecLeq(a, b) == \A j \in DOMAIN a : a[j] <= b[j]

\* available plus the allocated rows of the first k tasks of order
RECURSIVE WorkBefore(_, _, _)
WorkBefore(b, order, k) ==
    IF k = 0 THEN b.available
    ELSE LET w == WorkBefore(b, order, k - 1)
         IN  [j \in DOMAIN w |-> w[j] + b.allocated[order[k]][j]]

\* there is an ordering of all tasks in which each task's need row fits in
\* available plus the allocated rows of the tasks before it
SafeOrderExists(b) ==
    \E order \in [1..b.num_tasks -> TaskRows(b)] :
        /\ \A i, j \in 1..b.num_tasks : i # j => order[i] # order[j]
        /\ \A k \in 1..b.num_tasks :
               VecLeq(b.need[order[k]], WorkBefore(b, order, k - 1))

\* C5 (safety-checker correctness): what is_safe returned is true exactly
\* when a safe ordering of all tasks exists; on the textbook instance it is
\* true, on its unsafe variant false.
SafetyCheckerCorrect ==
    last.op = "is_safe" =>
        /\ last.ret <=> SafeOrderExists(banker)
        /\ banker = TextbookSafe => last.ret
        /\ banker = TextbookUnsafe => ~last.ret

\* is_safe has answered true on the textbook instance, after a second pass
SafetyCheckerWitness ==
    /\ last.op = "is_safe"
    /\ banker = TextbookSafe
    /\ last.ret
    /\ is_safe_run(banker).passes = 2

\* C6 (try_request has no side effect): every try_request step, whatever it
\* returns, leaves the whole Banker as it was.
TryRequestNoSideEffect ==
    [][ last'.op = "try_request" => banker' = banker ]_vars

\* try_request has run the checker on a raised need, got unsafe, and
\* returned false
TryRequestWitness ==
    /\ last.op = "try_request"
    /\ last.path = "checked"
    /\ ~last.ret
    /\ \E t \in TaskRows(banker), id \in Slots(banker) : banker.allocated[t][id] > 0

\* the state of the scenario right after grant(1, resource, 7): two tasks
\* created, one resource of capacity 10, task 1 holds 7, 3 are available
ScenarioAfterGrant ==
    /\ last.op = "request" /\ last.ret
    /\ last.task_id = 1 /\ last.resource = "A" /\ last.amount = 7
    /\ banker.num_tasks = 3
    /\ banker.resources = VecFill(1, Some("A"))
    /\ total = VecFill(1, 10)
    /\ banker.available[0] = 3
    /\ banker.max = [t \in 0..2 |-> VecFill(1, IF t = 1 THEN 7 ELSE 0)]
    /\ banker.allocated = [t \in 0..2 |-> VecFill(1, IF t = 1 THEN 7 ELSE 0)]

\* C7 (scenario verdicts): after grant(1, resource, 7) out of 10,
\* try_request(2, resource, 5) returns false and try_request(2, resource, 3)
\* returns true.
ScenarioVerdicts ==
    ScenarioAfterGrant =>
        /\ ~try_request(banker, 2, "A", 5).ret
        /\ try_request(banker, 2, "A", 3).ret

\* C8 (slot reuse): when add_resource is called while exactly one slot is
\* waiting in the recycle list, the new identity takes that slot, the
\* slot's available is the new total, and every task's max, allocated and
\* need for the slot are zero.
SlotReuse ==
    [][ (last'.op = "add_resource" /\ Len(banker.recycle) = 1) =>
            LET id == Head(banker.recycle)
            IN  /\ banker'.resources[id] = Some(last'.resource)
                /\ VecLen(banker'.resources) = VecLen(banker.resources)
                /\ banker'.available[id] = last'.amount
                /\ \A t \in TaskRows(banker') :
                       /\ banker'.max[t][id] = 0
                       /\ banker'.allocated[t][id] = 0
                       /\ banker'.need[t][id] = 0
      ]_vars

\* B has just been registered into the only recycled slot, with a task
\* created besides row 0 and another resource still held by some task
SlotReuseWitness ==
    /\ last.op = "add_resource"
    /\ last.path = "recycled"
    /\ last.resource = "B"
    /\ banker.recycle = << >>
    /\ banker.num_tasks > 1
    /\ \E t \in TaskRows(banker), id \in Slots(banker) : banker.allocated[t][id] > 0

\* C9 (lifecycle exhaustiveness): Ready moves only to Running or Exited,
\* Running only to Ready or Exited, and Exited never changes.
LifecycleExhaustive ==
    [][ /\ tcb.tag = "Ready" => tcb'.tag \in {"Ready", "Running", "Exited"}
        /\ tcb.tag = "Running" => tcb'.tag \in {"Running", "Ready", "Exited"}
        /\ tcb.tag = "Exited" => tcb'.tag = "Exited"
      ]_vars

\* try_turn_to_ready has been called on an exited task that ran and counted
LifecycleWitness ==
    /\ tcb.tag = "Exited"
    /\ tlast.op = "try_turn_to_ready"
    /\ tcb.start_time > 0
    /\ tcb.syscall_times[0] > 0

\* a step that is a call of op (Tick is the only step that is no call)
TaskCall(op) == clock' = clock /\ tlast'.op = op

\* C10 (guarded transitions): turn_to_running returns Ok exactly from Ready,
\* try_turn_to_ready exactly from Running, and a call of either that returns
\* Err leaves tag, start time and counters unchanged.
GuardedTransitions ==
    [][ /\ TaskCall("turn_to_running") =>
               /\ tlast'.ret = "Ok" <=> tcb.tag = "Ready"
               /\ tlast'.ret = "Err" => tcb' = tcb
        /\ TaskCall("try_turn_to_ready") =>
               /\ tlast'.ret = "Ok" <=> tcb.tag = "Running"
               /\ tlast'.ret = "Err" => tcb' = tcb
      ]_vars

\* turn_to_running has failed on a Running task whose start time is unset
\* while the clock reads something else
GuardedWitness ==
    /\ tlast.op = "turn_to_running"
    /\ tlast.ret = "Err"
    /\ tcb.tag = "Running"
    /\ tcb.start_time = 0
    /\ clock > 0

\* C11 (start time stamped once): for a task whose start time was unset when
\* turn_to_running first succeeded, the start time is the one that call
\* left, whatever the clock read and whatever transitions followed.  A clock
\* reading of 0 leaves start_time at 0, and the next entry stamps it again.
StartTimeStampedOnce ==
    (first_entry # None /\ first_entry[1].unset) =>
        tcb.start_time = first_entry[1].start_time

\* a task created unset entered Running while the clock read 0, went back
\* to Ready, and has entered Running again later on the clock
StartTimeSecondEntry ==
    /\ first_entry = Some([unset |-> TRUE, start_time |-> 0])
    /\ tlast = [op |-> "turn_to_running", ret |-> "Ok"]
    /\ tcb.tag = "Running"
    /\ clock > 0

\* C12 (add_task returns the id of the row it appended): what add_task
\* returned is the index of the last row (the number of add_task calls so
\* far), that row is all zeros, and remove_task, release, try_request and
\* request accept the id as in range.  add_task returns num_tasks after the
\* increment, one past the last row.
AddTaskReturnsRow ==
    last.op = "add_task" =>
        /\ last.task_id = banker.num_tasks - 1
        /\ last.task_id \in DOMAIN banker.max
        /\ remove_task(banker, last.task_id).path # "range"
        /\ \A r \in ResourceIds :
               /\ release(banker, last.task_id, r, 0).path # "range"
               /\ try_request(banker, last.task_id, r, 0).path # "range"
               /\ request(banker, last.task_id, r, 0).path # "range"

\* add_task has just been called for the first time on a fresh ledger
AddTaskFirstCall ==
    /\ last.op = "add_task"
    /\ banker.num_tasks = 2
    /\ last.task_id = 2

\* C13 (allocation within the declared maximum): in every reachable state
\* 0 <= allocated[t][r] <= max[t][r] for every task row and resource slot.
AllocatedWithinMax ==
    \A t \in TaskRows(banker) : \A id \in Slots(banker) :
        /\ 0 <= banker.allocated[t][id]
        /\ banker.allocated[t][id] <= banker.max[t][id]

\* a release has just lowered an allocation below its maximum while another
\* task still holds all it was granted
AllocatedWithinMaxWitness ==
    /\ last.op = "release" /\ last.ret /\ last.amount > 0
    /\ \E t \in TaskRows(banker), id \in Slots(banker) :
           banker.allocated[t][id] < banker.max[t][id]
    /\ \E t \in TaskRows(banker), id \in Slots(banker) :
           banker.allocated[t][id] > 0

\* the arguments release refuses
ReleaseRefused(b, t, r, a) ==
    \/ t >= b.num_tasks
    \/ resource_id(b, r) = None
    \/ a > b.allocated[t][resource_id(b, r)[1]]

\* is_safe takes &self and can follow any call that did not panic, so the
\* states in which is_safe was the last call hold every Banker value the
\* ledger reaches; a property of the operations applied to the Banker is
\* checked there, once per Banker value.
AfterIsSafe == last.op = "is_safe"

\* C14 (failure paths change nothing): on every reachable Banker, release
\* returns false and leaves the Banker as it was for an out-of-range task
\* id, an unregistered identity or an amount above the task's allocation;
\* so does try_request for an out-of-range task id or an unregistered
\* identity, remove_task for an out-of-range id, and remove_resource for an
\* unknown identity.
FailurePathsUnchanged ==
    AfterIsSafe =>
    /\ \A t \in 0..(MaxTasks + 1) :
           /\ t >= banker.num_tasks =>
                  LET x == remove_task(banker, t)
                  IN  ~x.ret /\ x.b = banker
           /\ \A r \in ResourceIds :
                  /\ (t >= banker.num_tasks \/ resource_id(banker, r) = None) =>
                         \A a \in 0..MaxTotal :
                             LET x == try_request(banker, t, r, a)
                             IN  ~x.ret /\ x.b = banker
                  /\ \A a \in 0..(MaxTotal + 1) :
                         ReleaseRefused(banker, t, r, a) =>
                             LET x == release(banker, t, r, a)
                             IN  ~x.ret /\ x.b = banker
    /\ \A r \in ResourceIds :
           resource_id(banker, r) = None =>
               LET x == remove_resource(banker, r)
               IN  ~x.ret /\ x.b = banker

\* a Banker on which release refuses an amount above what a task holds
\* (the task holds something), one identity is unknown and its slot is
\* waiting in the recycle list
FailurePathsWitness ==
    /\ AfterIsSafe
    /\ \E t \in TaskRows(banker), r \in ResourceIds :
           /\ resource_id(banker, r) # None
           /\ banker.allocated[t][resource_id(banker, r)[1]] > 0
           /\ release(banker, t, r, MaxTotal + 1).path = "exceeds"
    /\ \E r \in ResourceIds : remove_resource(banker, r).path = "unknown"
    /\ banker.recycle # << >>

\* C15 (sys_call_inc): a call on a Ready or Running task returns Some and
\* raises exactly one counter by one, leaving the other counters, the start
\* time and the tag alone; a call on an UnInit or Exited task returns None
\* and changes nothing.  An id past the counter table panics instead.
SysCallIncEffect ==
    [][ TaskCall("sys_call_inc") =>
            IF tcb.tag \in {"Ready", "Running"}
            THEN /\ tlast'.ret = "Some"
                 /\ \E id \in DOMAIN tcb.syscall_times :
                        tcb' = [tcb EXCEPT !.syscall_times[id] = @ + 1]
            ELSE /\ tlast'.ret = "None"
                 /\ tcb' = tcb
      ]_vars

\* sys_call_inc has panicked on a Running task that had counted before
SysCallIncPanicked ==
    /\ tlast = [op |-> "sys_call_inc", ret |-> "panic"]
    /\ tcb.tag = "Running"
    /\ tcb.syscall_times[0] > 0

\* C16 (free slots are zeroed): in every reachable state, for every slot
\* whose entry in resources is None, available is 0 and max, allocated and
\* need of every task row are 0, whatever calls were made since the
\* removal (tasks added, requests, releases, admission checks).
FreeSlotsZeroed ==
    \A id \in Slots(banker) :
        banker.resources[id] = None =>
            /\ banker.available[id] = 0
            /\ \A t \in TaskRows(banker) :
                   /\ banker.max[t][id] = 0
                   /\ banker.allocated[t][id] = 0
                   /\ banker.need[t][id] = 0

\* a task has just been added while a slot is free and another resource is
\* held by some task
FreeSlotsWitness ==
    /\ last.op = "add_task"
    /\ \E id \in Slots(banker) : banker.resources[id] = None
    /\ \E t \in TaskRows(banker), id \in Slots(banker) :
           banker.allocated[t][id] > 0

\* the arguments request's assertions reject
RequestRefused(b, t, r, a) ==
    \/ t >= b.num_tasks
    \/ resource_id(b, r) = None
    \/ a > b.available[resource_id(b, r)[1]]

\* C17 (request's preconditions): on every reachable Banker, for every task
\* id, identity and amount, request panics exactly when the task id is out
\* of range, the identity is not registered or the amount exceeds the
\* slot's available, and then the Banker is as it was; whenever request
\* would panic try_request returns false on the same arguments (so a
\* request right after a true try_request does not panic); and available
\* is never negative, before or after a request.
RequestPreconditions ==
    AfterIsSafe =>
    /\ \A id \in Slots(banker) : banker.available[id] >= 0
    /\ \A t \in 0..(MaxTasks + 1), r \in ResourceIds, a \in 0..(MaxTotal + 1) :
           LET x == request(banker, t, r, a)
           IN  /\ ~x.ret <=> RequestRefused(banker, t, r, a)
               /\ ~x.ret => /\ x.b = banker
                            /\ ~try_request(banker, t, r, a).ret
               /\ \A id \in Slots(x.b) : x.b.available[id] >= 0

\* a Banker with a task besides row 0 on which request panics for an amount
\* above what is available, and passes for a smaller one (not 0) that
\* try_request admits
RequestPanicWitness ==
    /\ AfterIsSafe
    /\ banker.num_tasks > 1
    /\ \E t \in TaskRows(banker), r \in ResourceIds :
           /\ request(banker, t, r, MaxTotal + 1).path = "exceeds"
           /\ try_request(banker, t, r, MaxTotal).ret
           /\ request(banker, t, r, MaxTotal).ret

\* C18 (is_safe terminates): is_safe ends after at most num_tasks passes
\* over the tasks; when it answers true every task is marked finished; when
\* it answers false the last pass marked no task and some task is left
\* unfinished; and every pass before the last marked at least one task that
\* was not finished before (the tasks marked are at least as many as those
\* passes).
SafetyCheckerTerminates ==
    last.op = "is_safe" =>
        LET run == is_safe_run(banker)
            marking == IF run.safe THEN run.passes ELSE run.passes - 1
            marked == Cardinality({t \in TaskRows(banker) : run.final.finish[t]})
        IN  /\ run.safe = last.ret
            /\ run.passes <= banker.num_tasks
            /\ run.final.count = marked
            /\ marked >= marking
            /\ run.safe => marked = banker.num_tasks
            /\ ~run.safe => (~run.final.found /\ marked < banker.num_tasks)

\* is_safe has answered true after as many passes as there are tasks (each
\* pass marked one task), on a Banker that is not the textbook instance
SafetyCheckerWorstCase ==
    /\ last.op = "is_safe" /\ last.ret
    /\ banker.num_tasks >= 2
    /\ is_safe_run(banker).passes = banker.num_tasks

\* C19 (matrix shape): in every reachable state max, allocated and need
\* have exactly num_tasks rows, every row and available have one entry per
\* entry of resources, and every slot the identity lookup returns is an
\* index of resources.
MatrixShape ==
    /\ DOMAIN banker.max = TaskRows(banker)
    /\ DOMAIN banker.allocated = TaskRows(banker)
    /\ DOMAIN banker.need = TaskRows(banker)
    /\ Slots(banker) = 0..(VecLen(banker.resources) - 1)
    /\ DOMAIN banker.available = Slots(banker)
    /\ \A t \in TaskRows(banker) :
           /\ DOMAIN banker.max[t] = Slots(banker)
           /\ DOMAIN banker.allocated[t] = Slots(banker)
           /\ DOMAIN banker.need[t] = Slots(banker)
    /\ \A r \in ResourceIds :
           resource_id(banker, r) # None => resource_id(banker, r)[1] \in Slots(banker)

\* a slot has just been pushed after a task was added, and another
\* resource was registered before
MatrixShapeWitness ==
    /\ last.op = "add_resource" /\ last.path = "pushed"
    /\ VecLen(banker.resources) = 2
    /\ banker.num_tasks > 1

\* C20 (UnInit is never scheduled): from UnInit a step leads only to UnInit
\* or Exited; on an UnInit task turn_to_running and try_turn_to_ready
\* return Err and sys_call_inc returns None, each leaving the block as it
\* was; and Ready is entered only from Running.
UnInitNeverScheduled ==
    [][ /\ tcb.tag = "UnInit" =>
               /\ tcb'.tag \in {"UnInit", "Exited"}
               /\ TaskCall("turn_to_running") => (tlast'.ret = "Err" /\ tcb' = tcb)
               /\ TaskCall("try_turn_to_ready") => (tlast'.ret = "Err" /\ tcb' = tcb)
               /\ TaskCall("sys_call_inc") => (tlast'.ret = "None" /\ tcb' = tcb)
               /\ TaskCall("turn_to_exited") => tcb'.tag = "Exited"
        /\ (tcb'.tag = "Ready" /\ tcb.tag # "Ready") => tcb.tag = "Running"
      ]_vars

\* try_turn_to_ready has just failed on a task that is still UnInit, after
\* the clock moved
UnInitWitness ==
    /\ tcb.tag = "UnInit"
    /\ tlast = [op |-> "try_turn_to_ready", ret |-> "Err"]
    /\ first_entry = None
    /\ clock > 0

====
